---- MODULE Spec2Model ----
(***************************************************************************)
(* TensorFlow frontend conversion pipeline                                 *)
(* (src/frontends/tensorflow/src/frontend.cpp).                            *)
(*                                                                         *)
(* An ov::Model is the sequence returned by get_ordered_ops(); each node   *)
(* is a record                                                             *)
(*    [type, op, attrs, functions]                                         *)
(* type      "FrameworkNode" (the Placeholder Node of the design) or "Op"  *)
(* op        the op-type tag (get_op_type of the decoder)                  *)
(* attrs     the framework-node attribute map (get_attrs)                  *)
(* functions the nested models of a MultiSubGraphOp (get_function(i))      *)
(***************************************************************************)
EXTENDS Integers, Sequences, FiniteSets, TLC

VARIABLES
    m_op_translators,             \* FrontEnd::m_op_translators: tag -> translator
    m_transformation_extensions,  \* FrontEnd::m_transformation_extensions
    m_telemetry,                  \* FrontEnd::m_telemetry
    m_extensions,                 \* FrontEnd::m_extensions (loaded-library handles)
    m_conversion_extensions,      \* FrontEnd::m_conversion_extensions
    pc,                           \* position of the conversion call in progress
    input_model,                  \* the InputModel handed to convert
    translator_map,               \* the dictionary given to the TranslateSession
    f,                            \* the ov::Model under conversion
    unsupported_operations,       \* convert: local of line 206
    failures,                     \* convert: local of line 205
    exception_message,            \* convert: local of line 209 / the raised text
    sent_events,                  \* calls of m_telemetry->send_event, in order
    returned,                     \* the model a finished call returned
    partial_result,               \* the model convert_partially returned (line 203)
    pass_log,                     \* passes applied to f, in order
    lookups,                      \* <<tag, translator>> pairs invoked so far
    entry_translators,            \* m_op_translators when convert_partially was entered
    raised,                       \* the error a finished call raised, or NoError
    n_add,                        \* number of add_extension calls so far
    ext_history,                  \* the arguments of the add_extension calls, in order
    normalize_report,             \* normalize: locals of lines 320-321 after line 322
    steps,                        \* the steps convert_partially has run, in order
    ordered_ops_pos,              \* convert(partiallyConverted): position of the loop
                                  \* of line 294 in get_ordered_ops()
    consumers,                    \* per node of a model handed to
                                  \* convert(partiallyConverted) directly: the
                                  \* consumers of its outputs, each with the output
                                  \* feeding it
    ports                         \* of that model: the number of outputs of every
                                  \* node (old), and the number of outputs the
                                  \* translator called last produced (new)

vars == <<m_op_translators, m_transformation_extensions, m_telemetry, m_extensions,
          m_conversion_extensions, pc, input_model, translator_map, f,
          unsupported_operations, failures, exception_message, sent_events,
          returned, partial_result, pass_log, lookups,
          entry_translators, raised, n_add, ext_history, normalize_report, steps,
          ordered_ops_pos, consumers, ports>>

FrontEndState == <<m_op_translators, m_transformation_extensions, m_telemetry,
                   m_extensions, m_conversion_extensions, n_add, ext_history>>

WiringVars == <<ordered_ops_pos, consumers, ports>>

(***************************************************************************)
(* Bounds of the model.                                                    *)
(***************************************************************************)
\* total number of nodes (nested ones included) of a decoded input model
MaxModelNodes == 2
\* total number of nodes (nested ones included) of an IR graph handed to the
\* collector directly
MaxGraphNodes == 3
\* number of add_extension calls in one run
MaxAddExtension == 2
\* most outputs of a retried FrameworkNode, and most outputs its translator produces
MaxPorts == 2
\* most consumers wired to the outputs of the FrameworkNodes of a graph handed to
\* convert(partiallyConverted) directly
MaxConsumers == 2
\* most nodes of a graph handed to convert(partiallyConverted) directly
MaxRetryNodes == 2
\* calls of the collector on one graph
MaxCollectorRuns == 2

(***************************************************************************)
(* Values.                                                                 *)
(***************************************************************************)
NoError == "no error"
NoTelemetry == "no telemetry"

\* FrameworkNode::failed_conversion_key
failed_conversion_key == "failed_conversion_key"

EmptyMap == [k \in {} |-> ""]

MapPut(map, key, value) ==
    [k \in DOMAIN map \cup {key} |-> IF k = key THEN value ELSE map[k]]

Contains(seq, x) == \E i \in 1..Len(seq) : seq[i] = x

RECURSIVE Concat(_)
Concat(seqs) == IF seqs = <<>> THEN <<>> ELSE Head(seqs) \o Concat(Tail(seqs))

\* a node of an ov::Model
FrameworkNode(op, attrs, functions) ==
    [type |-> "FrameworkNode", op |-> op, attrs |-> attrs, functions |-> functions]

OpNode(op, functions) ==
    [type |-> "Op", op |-> op, attrs |-> EmptyMap, functions |-> functions]

(***************************************************************************)
(* get_unsupported_operations_and_failures (lines 35-60).                  *)
(* The two out-parameters are the record                                   *)
(*    [unsupported_operations: sequence of tags, failures: tag -> message] *)
(* threaded through the loop and through the recursive calls.              *)
(***************************************************************************)
EmptyReport == [unsupported_operations |-> <<>>, failures |-> EmptyMap]

\* mutant: a later failure of a tag overwrites the stored message
VisitFrameworkNode_last_wins(fw_node, acc) ==
    IF failed_conversion_key \in DOMAIN fw_node.attrs
    THEN [acc EXCEPT !.failures =
              MapPut(@, fw_node.op, fw_node.attrs[failed_conversion_key])]
    ELSE IF ~Contains(acc.unsupported_operations, fw_node.op)
         THEN [acc EXCEPT !.unsupported_operations = Append(@, fw_node.op)]
         ELSE acc

\* lines 40-51: the body of `if (fw_node = as_type_ptr<FrameworkNode>(node))`
VisitFrameworkNode(fw_node, acc) ==
    LET op_type == fw_node.op
        fw_node_attrs == fw_node.attrs
    IN  IF /\ failed_conversion_key \in DOMAIN fw_node_attrs
           /\ op_type \notin DOMAIN acc.failures
        THEN [acc EXCEPT !.failures =
                  MapPut(@, op_type, fw_node_attrs[failed_conversion_key])]
        ELSE IF ~Contains(acc.unsupported_operations, op_type)
             THEN [acc EXCEPT !.unsupported_operations = Append(@, op_type)]
             ELSE acc

RECURSIVE get_unsupported_operations_and_failures(_, _)
RECURSIVE CollectOrderedOps(_, _, _)
RECURSIVE CollectSubgraphs(_, _, _)

\* mutant: the nested models of a node are not visited
CollectSubgraphs_skipped(node, i, acc) == acc

\* mutant: the nested models of a node are visited, but not the models nested in
\* them
RECURSIVE VisitDirectNodes(_, _, _)
VisitDirectNodes(ops, k, acc) ==
    IF k > Len(ops)
    THEN acc
    ELSE VisitDirectNodes(ops, k + 1,
             IF ops[k].type = "FrameworkNode"
             THEN VisitFrameworkNode(ops[k], acc)
             ELSE acc)

RECURSIVE CollectSubgraphs_one_level(_, _, _)
CollectSubgraphs_one_level(node, i, acc) ==
    IF i > Len(node.functions)
    THEN acc
    ELSE CollectSubgraphs_one_level(node, i + 1,
             VisitDirectNodes(node.functions[i], 1, acc))

\* lines 53-58: for (i = 0; i < subgraphs_size; ++i) recurse into get_function(i).
\* A node that is no MultiSubGraphOp has no nested model: the loop is empty.
CollectSubgraphs(node, i, acc) ==
    IF i > Len(node.functions)
    THEN acc
    ELSE CollectSubgraphs(node, i + 1,
             get_unsupported_operations_and_failures(node.functions[i], acc))

\* lines 38-59: one iteration of the loop over get_ordered_ops(), then the rest
CollectOrderedOps(ops, k, acc) ==
    IF k > Len(ops)
    THEN acc
    ELSE LET node == ops[k]
             visited == IF node.type = "FrameworkNode"
                        THEN VisitFrameworkNode(node, acc)
                        ELSE acc
         IN  CollectOrderedOps(ops, k + 1, CollectSubgraphs(node, 1, visited))

get_unsupported_operations_and_failures(model, acc) ==
    CollectOrderedOps(model, 1, acc)

(***************************************************************************)
(* The same function with the model it leaves behind: every call it makes  *)
(* on a node is followed to what the node holds afterwards, so that a      *)
(* second run reads the model as the first run left it.                    *)
(***************************************************************************)
\* mutant: the attribute map is taken by reference and looked up with operator[],
\* which inserts the key it does not find
VisitedFrameworkNode_inserting(fw_node) ==
    IF failed_conversion_key \in DOMAIN fw_node.attrs
    THEN fw_node
    ELSE [fw_node EXCEPT !.attrs = MapPut(@, failed_conversion_key, "")]

\* lines 40-46 seen from the node: get_op_type() reads the decoder, get_attrs()
\* (line 41, `auto`) hands out a copy of the attribute map, find (line 42) and at
\* (line 46) read the copy and insert nothing, and the copy is dropped at the end
\* of the block
VisitedFrameworkNode(fw_node) ==
    LET fw_node_attrs == fw_node.attrs
        after_find == fw_node_attrs
        after_at == after_find
    IN  [fw_node EXCEPT !.attrs = fw_node.attrs]

RECURSIVE RunCollectorOn(_, _)
RECURSIVE RunOrderedOps(_, _, _)
RECURSIVE RunSubgraphs(_, _, _)

\* lines 53-58 on one node: get_function(i) is handed to the recursive call, which
\* works on the nested model itself (a shared_ptr to it), not on a copy
RunSubgraphs(node, i, acc) ==
    IF i > Len(node.functions)
    THEN [node |-> node, acc |-> acc]
    ELSE LET nested == RunCollectorOn(node.functions[i], acc)
         IN  RunSubgraphs([node EXCEPT !.functions[i] = nested.model], i + 1,
                          nested.acc)

\* lines 38-59: one iteration of the loop over get_ordered_ops(), then the rest
RunOrderedOps(model, k, acc) ==
    IF k > Len(model)
    THEN [model |-> model, acc |-> acc]
    ELSE LET node == model[k]
             is_fw_node == node.type = "FrameworkNode"
             visited == IF is_fw_node THEN VisitedFrameworkNode(node) ELSE node
             collected == IF is_fw_node THEN VisitFrameworkNode(node, acc) ELSE acc
             nested == RunSubgraphs(visited, 1, collected)
         IN  RunOrderedOps([model EXCEPT ![k] = nested.node], k + 1, nested.acc)

\* get_unsupported_operations_and_failures (lines 35-60): the model and the two
\* collections after the call
RunCollectorOn(model, acc) ==
    RunOrderedOps(model, 1, acc)

(***************************************************************************)
(* Bounded families of models.  A shape is a sequence of nodes, a node the *)
(* sequence of the shapes of its nested models (none of them empty);       *)
(* ShapesOf(n) are the shapes of exactly n nodes.  A labelling gives every *)
(* node, numbered in depth-first order, its contents.                      *)
(***************************************************************************)
RECURSIVE ShapesOf(_)
RECURSIVE SubShapesOf(_)

ShapesOf(n) ==
    IF n = 0
    THEN {<<>>}
    ELSE UNION { { <<s>> \o rest : s \in SubShapesOf(k - 1), rest \in ShapesOf(n - k) }
                 : k \in 1..n }

SubShapesOf(m) ==
    IF m = 0
    THEN {<<>>}
    ELSE UNION { { <<g>> \o r : g \in ShapesOf(j), r \in SubShapesOf(m - j) }
                 : j \in 1..m }

ShapesUpTo(n) == UNION { ShapesOf(k) : k \in 0..n }

\* number of nodes of a shape, and of a sequence of nested shapes
RECURSIVE Size(_)
RECURSIVE SubsSize(_)
Size(shape) ==
    IF shape = <<>> THEN 0 ELSE 1 + SubsSize(Head(shape)) + Size(Tail(shape))

SubsSize(subs) ==
    IF subs = <<>> THEN 0 ELSE Size(Head(subs)) + SubsSize(Tail(subs))

\* failure messages of the FrameworkNodes of an IR graph
Messages == {"bad shape", "bad type"}

\* contents of the nodes of an IR graph: a real node, or a FrameworkNode of a tag
\* with or without the failure attribute
GraphLabels ==
    {<<"Op", "OpA", EmptyMap>>}
    \cup { <<"FrameworkNode", t, EmptyMap>> : t \in {"OpA", "OpB"} }
    \cup { <<"FrameworkNode", t, [k \in {failed_conversion_key} |-> m]>> :
             t \in {"OpA", "OpB"}, m \in Messages }

RECURSIVE LabelGraph(_, _, _)
LabelGraph(shape, lab, base) ==
    [k \in 1..Len(shape) |->
        LET at == base + Size(SubSeq(shape, 1, k - 1)) + 1
        IN  [type |-> lab[at][1], op |-> lab[at][2], attrs |-> lab[at][3],
             functions |->
                 [i \in 1..Len(shape[k]) |->
                     LabelGraph(shape[k][i], lab,
                                at + SubsSize(SubSeq(shape[k], 1, i - 1)))]]]

\* a decoded input model: a sequence of [op_type, nested_subgraphs]
RECURSIVE LabelDecoded(_, _, _)
LabelDecoded(shape, lab, base) ==
    [k \in 1..Len(shape) |->
        LET at == base + Size(SubSeq(shape, 1, k - 1)) + 1
        IN  [op_type |-> lab[at],
             nested_subgraphs |->
                 [i \in 1..Len(shape[k]) |->
                     LabelDecoded(shape[k][i], lab,
                                  at + SubsSize(SubSeq(shape[k], 1, i - 1)))]]]

ModelTags == {"Placeholder", "OpA", "OpB", "BlockLSTM"}

InputModels ==
    UNION { { LabelDecoded(shape, lab, 0) : lab \in [1..Size(shape) -> ModelTags] }
            : shape \in ShapesUpTo(MaxModelNodes) }

\* the handles a caller can pass: a tensorflow InputModel over a decoded model, or
\* an InputModel of another frontend (the dynamic_pointer_cast of line 238 fails)
ModelHandles ==
    { [kind |-> "tensorflow::InputModel", nodes |-> m] : m \in InputModels }
    \cup { [kind |-> "InputModel"] }

(***************************************************************************)
(* Translators.  A translator is named by who supplied it; the one named   *)
(* "ext_raises" raises on every node, the others produce outputs.          *)
(***************************************************************************)
Translators == {"builtin", "ext_ok", "ext_raises", "ext_indexed", "ext_named_indexed"}

TranslatorRaises(translator) == translator = "ext_raises"

TranslatorMessage(translator) == "bad shape"

\* tensorflow::op::get_supported_ops(): the built-in dictionary (line 84)
get_supported_ops ==
    [t \in {"Placeholder", "NoOp", "OpA"} |-> "builtin"]

(***************************************************************************)
(* TranslateSession::get_converted_model: every decoded node becomes a real*)
(* node, or a FrameworkNode without attributes when the dictionary has no  *)
(* translator for its tag, or a FrameworkNode carrying the failure message *)
(* when the translator raised.  Nested subgraphs are translated with the   *)
(* same dictionary and attached to the produced node.                      *)
(***************************************************************************)
RECURSIVE get_converted_model(_, _)
get_converted_model(decoded, dictionary) ==
    [k \in 1..Len(decoded) |->
        LET node == decoded[k]
            nested == [i \in 1..Len(node.nested_subgraphs) |->
                          get_converted_model(node.nested_subgraphs[i], dictionary)]
        IN  IF node.op_type \notin DOMAIN dictionary
            THEN FrameworkNode(node.op_type, EmptyMap, nested)
            ELSE IF TranslatorRaises(dictionary[node.op_type])
                 THEN FrameworkNode(node.op_type,
                          [a \in {failed_conversion_key} |->
                              TranslatorMessage(dictionary[node.op_type])],
                          nested)
                 ELSE OpNode(node.op_type, nested)]

\* the <<tag, translator>> pairs a session invokes
RECURSIVE SessionLookups(_, _)
SessionLookups(decoded, dictionary) ==
    UNION { ( IF decoded[k].op_type \in DOMAIN dictionary
              THEN {<<decoded[k].op_type, dictionary[decoded[k].op_type]>>}
              ELSE {} )
            \cup UNION { SessionLookups(decoded[k].nested_subgraphs[i], dictionary) :
                           i \in 1..Len(decoded[k].nested_subgraphs) }
            : k \in 1..Len(decoded) }

(***************************************************************************)
(* Passes.  A pass is named; ov::pass::Manager::run_passes applies the     *)
(* registered passes in registration order.                                *)
(***************************************************************************)
\* every FrameworkNode of the given tag, nested ones included, becomes a real node
RECURSIVE ReplaceFrameworkNodes(_, _)
ReplaceFrameworkNodes(model, op) ==
    [k \in 1..Len(model) |->
        LET nested == [i \in 1..Len(model[k].functions) |->
                          ReplaceFrameworkNodes(model[k].functions[i], op)]
        IN  IF model[k].type = "FrameworkNode" /\ model[k].op = op
            THEN OpNode(op, nested)
            ELSE [model[k] EXCEPT !.functions = nested]]

\* the passes a DecoderTransformationExtension may register
TransformationPasses == {"InspectOnly", "FuseOpB"}

RunPass(pass, model) ==
    CASE pass = "BlockLSTMReplacer" -> ReplaceFrameworkNodes(model, "BlockLSTM")
      [] pass = "FuseOpB"           -> ReplaceFrameworkNodes(model, "OpB")
      [] OTHER                      -> model

RECURSIVE run_passes(_, _)
run_passes(passes, model) ==
    IF passes = <<>>
    THEN model
    ELSE run_passes(Tail(passes), RunPass(Head(passes), model))

\* normalize, lines 311-315
StageA == <<"SavedModelUnusedRemover", "EmbeddingSegmentSingleFeatureFusion",
            "BlockLSTMReplacer", "GRUBlockCellReplacer", "ConstToResultRemover">>

\* normalize, lines 330-331
StageB == <<"TransposeSinkingGeneral", "ReverseShapeAndTypeInfer">>

\* mutant: the second pass list runs whatever the collector reports
normalize_unconditional(model) ==
    LET after_a == run_passes(StageA, model)
    IN  [model |-> run_passes(StageB, after_a), applied |-> StageA \o StageB,
         report |-> get_unsupported_operations_and_failures(after_a, EmptyReport)]

\* mutant: the second pass list is never run
normalize_without_stage_b(model) ==
    LET after_a == run_passes(StageA, model)
    IN  [model |-> after_a, applied |-> StageA,
         report |-> get_unsupported_operations_and_failures(after_a, EmptyReport)]

\* FrontEnd::normalize (lines 306-334): the model it leaves, the passes it ran and
\* the collections its collector filled
normalize(model) ==
    LET after_a == run_passes(StageA, model)
        report == get_unsupported_operations_and_failures(after_a, EmptyReport)
    IN  IF Len(report.unsupported_operations) > 0 \/ Cardinality(DOMAIN report.failures) > 0
        THEN [model |-> after_a, applied |-> StageA, report |-> report]
        ELSE [model |-> run_passes(StageB, after_a), applied |-> StageA \o StageB,
              report |-> report]

(***************************************************************************)
(* translate_framework_node (lines 62-81) and the loop of                  *)
(* FrontEnd::convert(partiallyConverted) (lines 294-298).                  *)
(***************************************************************************)
NoTranslatorFound == "No translator found"
TranslatorRaised == "translator raised"
InvalidInputModel == "Invalid input model"
ConversionFailed == "conversion failed"
\* the call does not end in a defined way: lines 245-247 go on over a vector that
\* push_back of line 340 has reallocated; the translator running at line 72 has its
\* std::function destroyed by the assignment of line 346, 351 or 361; the sink
\* running at line 220 is destroyed when line 338 drops the last reference to it
UndefinedBehaviour == "undefined behaviour"

\* Output::replace (line 79): every consumer of output i of the FrameworkNode is
\* wired to output i of the new node; outputs are counted from 0
replace(wiring, i) ==
    [c \in DOMAIN wiring |->
        IF wiring[c] = [source |-> "FrameworkNode", port |-> i]
        THEN [source |-> "new_node", port |-> i]
        ELSE wiring[c]]

\* mutant: the loop stops after the first output
replace_outputs_first_only(wiring, i, old_outputs, new_node_outputs) ==
    IF 0 < new_node_outputs /\ 0 < old_outputs THEN replace(wiring, 0) ELSE wiring

\* lines 74-80: the loop over both output lists, i being the position of both
\* iterators, old_outputs and new_node_outputs the lengths of the lists
RECURSIVE replace_outputs(_, _, _, _)
replace_outputs(wiring, i, old_outputs, new_node_outputs) ==
    IF i < new_node_outputs /\ i < old_outputs
    THEN replace_outputs(replace(wiring, i), i + 1, old_outputs, new_node_outputs)
    ELSE wiring

\* mutant: the translator of a missing tag is called before the check is made
translate_framework_node_unchecked(node, op_translators, wiring, old_outputs, new_node_outputs) ==
    LET type == node.op
    IN  IF type \notin DOMAIN op_translators
        THEN [error |-> NoTranslatorFound, node |-> node, wiring |-> wiring,
              invoked |-> {<<type, "builtin">>}]
        ELSE LET translator == op_translators[type]
             IN  IF TranslatorRaises(translator)
                 THEN [error |-> TranslatorRaised, node |-> node, wiring |-> wiring,
                       invoked |-> {<<type, translator>>}]
                 ELSE LET rewired == replace_outputs(wiring, 0, old_outputs,
                                                     new_node_outputs)
                      IN  [error |-> NoError,
                           node |-> IF \E c \in DOMAIN rewired :
                                          rewired[c].source = "FrameworkNode"
                                    THEN node
                                    ELSE OpNode(type, node.functions),
                           wiring |-> rewired,
                           invoked |-> {<<type, translator>>}]

\* translate_framework_node (lines 62-81) on a FrameworkNode with old_outputs
\* outputs whose consumers are wired as in `wiring`, the translator producing
\* new_node_outputs outputs.  error: what the call raised; invoked: the translator
\* that was called; wiring: the consumers afterwards; node: what stands in the graph
\* at the place of the FrameworkNode afterwards, which is the FrameworkNode itself as
\* long as a consumer is wired to it
translate_framework_node(node, op_translators, wiring, old_outputs, new_node_outputs) ==
    LET type == node.op
    IN  IF type \notin DOMAIN op_translators
        THEN [error |-> NoTranslatorFound, node |-> node, wiring |-> wiring,
              invoked |-> {}]
        ELSE LET translator == op_translators[type]
             IN  IF TranslatorRaises(translator)
                 THEN [error |-> TranslatorRaised, node |-> node, wiring |-> wiring,
                       invoked |-> {<<type, translator>>}]
                 ELSE LET rewired == replace_outputs(wiring, 0, old_outputs,
                                                     new_node_outputs)
                      IN  [error |-> NoError,
                           node |-> IF \E c \in DOMAIN rewired :
                                          rewired[c].source = "FrameworkNode"
                                    THEN node
                                    ELSE OpNode(type, node.functions),
                           wiring |-> rewired,
                           invoked |-> {<<type, translator>>}]

\* a node of a converted model has one output, read by one consumer
SingleConsumer == <<[source |-> "FrameworkNode", port |-> 0]>>

\* a pass replacing a FrameworkNode (ov::replace_node): every consumer still wired
\* to the FrameworkNode is wired to the same output of the node that replaces it
replace_node(wiring) ==
    [c \in DOMAIN wiring |->
        IF wiring[c].source = "FrameworkNode"
        THEN [source |-> "replacement", port |-> wiring[c].port]
        ELSE wiring[c]]

(***************************************************************************)
(* FrontEnd::convert, lines 209-232.                                       *)
(***************************************************************************)
\* the orders in which a loop over an unordered_map can meet its keys
IterationOrders(keys) ==
    { order \in [1..Cardinality(keys) -> keys] :
        \A i, j \in 1..Cardinality(keys) : i # j => order[i] # order[j] }

\* mutant: only the first failure met is written to the message
build_exception_message_first_only(order, report) ==
    [i \in 1..(IF Len(order) > 0 THEN 1 ELSE 0) |->
        [kind |-> "conversion is failed", op |-> order[i],
         message |-> report.failures[order[i]]]]
    \o (IF Len(report.unsupported_operations) > 0
        THEN <<[kind |-> "No translator found", op |-> report.unsupported_operations[1],
                message |-> ""]>>
        ELSE <<>>)

\* lines 209-229: the text streamed into exception_message, one record per
\* `<<` statement
build_exception_message(order, report) ==
    [i \in 1..Len(order) |->
        [kind |-> "conversion is failed", op |-> order[i],
         message |-> report.failures[order[i]]]]
    \o (IF Len(report.unsupported_operations) > 0
        THEN <<[kind |-> "No translator found", op |-> report.unsupported_operations[1],
                message |-> ""]>>
        ELSE <<>>)

\* mutant: failures alone do not fail the conversion
is_conversion_successful_ignoring_failures(report) ==
    Len(report.unsupported_operations) = 0

\* line 231
is_conversion_successful(report) ==
    Len(report.unsupported_operations) = 0 /\ Cardinality(DOMAIN report.failures) = 0

\* line 220: the event the sink gets for one element of unsupported_operations
send_event(telemetry, unsupported_operation) ==
    <<telemetry, "error_cause", <<"tf_", unsupported_operation>> >>

(***************************************************************************)
(* FrontEnd::add_extension (lines 336-364) on the members of the FrontEnd. *)
(***************************************************************************)
NoConverter == "no converter"

TelemetryExtension(sink) == [kind |-> "TelemetryExtension", sink |-> sink]

DecoderTransformationExtension(pass) ==
    [kind |-> "DecoderTransformationExtension", pass |-> pass]

SOExtension(inner) == [kind |-> "SOExtension", extension |-> inner]

\* ov::frontend::ConversionExtension: get_converter() or
\* get_converter_named_and_indexed() may be empty
ConversionExtension(op_type, converter, named_and_indexed) ==
    [kind |-> "ConversionExtension", op_type |-> op_type, converter |-> converter,
     converter_named_and_indexed |-> named_and_indexed]

\* ov::frontend::tensorflow::ConversionExtension
TensorflowConversionExtension(op_type, converter) ==
    [kind |-> "tensorflow::ConversionExtension", op_type |-> op_type,
     converter |-> converter]

OtherExtension == [kind |-> "Extension"]

\* mutant: a converter is registered with emplace, which keeps the translator a
\* tag already has
RECURSIVE add_extension_emplace(_, _)
add_extension_emplace(fe, extension) ==
    LET Emplace(map, key, value) == IF key \in DOMAIN map THEN map
                                    ELSE MapPut(map, key, value)
    IN  CASE extension.kind = "TelemetryExtension" ->
                 [fe EXCEPT !.m_telemetry = extension.sink]
          [] extension.kind = "DecoderTransformationExtension" ->
                 [fe EXCEPT !.m_transformation_extensions = Append(@, extension)]
          [] extension.kind = "SOExtension" ->
                 [add_extension_emplace(fe, extension.extension)
                     EXCEPT !.m_extensions = Append(@, extension)]
          [] extension.kind = "ConversionExtension" ->
                 LET pushed == [fe EXCEPT !.m_conversion_extensions =
                                              Append(@, extension)]
                 IN  IF extension.converter # NoConverter
                     THEN [pushed EXCEPT !.m_op_translators =
                              Emplace(@, extension.op_type, extension.converter)]
                     ELSE IF extension.converter_named_and_indexed # NoConverter
                          THEN [pushed EXCEPT !.m_op_translators =
                                   Emplace(@, extension.op_type,
                                           extension.converter_named_and_indexed)]
                          ELSE pushed
          [] extension.kind = "tensorflow::ConversionExtension" ->
                 [fe EXCEPT !.m_conversion_extensions = Append(@, extension),
                            !.m_op_translators =
                                Emplace(@, extension.op_type, extension.converter)]
          [] OTHER -> fe

\* mutant: a transformation extension is put in front of the list
RECURSIVE add_extension_prepends(_, _)
add_extension_prepends(fe, extension) ==
    CASE extension.kind = "TelemetryExtension" ->
             [fe EXCEPT !.m_telemetry = extension.sink]
      [] extension.kind = "DecoderTransformationExtension" ->
             [fe EXCEPT !.m_transformation_extensions = <<extension>> \o @]
      [] extension.kind = "SOExtension" ->
             [add_extension_prepends(fe, extension.extension)
                 EXCEPT !.m_extensions = Append(@, extension)]
      [] extension.kind = "ConversionExtension" ->
             LET pushed == [fe EXCEPT !.m_conversion_extensions = Append(@, extension)]
             IN  IF extension.converter # NoConverter
                 THEN [pushed EXCEPT !.m_op_translators =
                          MapPut(@, extension.op_type, extension.converter)]
                 ELSE IF extension.converter_named_and_indexed # NoConverter
                      THEN [pushed EXCEPT !.m_op_translators =
                               MapPut(@, extension.op_type,
                                      extension.converter_named_and_indexed)]
                      ELSE pushed
      [] extension.kind = "tensorflow::ConversionExtension" ->
             [fe EXCEPT !.m_conversion_extensions = Append(@, extension),
                        !.m_op_translators =
                            MapPut(@, extension.op_type, extension.converter)]
      [] OTHER -> fe

RECURSIVE add_extension(_, _)
add_extension(fe, extension) ==
    CASE extension.kind = "TelemetryExtension" ->
             [fe EXCEPT !.m_telemetry = extension.sink]
      [] extension.kind = "DecoderTransformationExtension" ->
             [fe EXCEPT !.m_transformation_extensions = Append(@, extension)]
      [] extension.kind = "SOExtension" ->
             [add_extension(fe, extension.extension)
                 EXCEPT !.m_extensions = Append(@, extension)]
      [] extension.kind = "ConversionExtension" ->
             LET pushed == [fe EXCEPT !.m_conversion_extensions = Append(@, extension)]
             IN  IF extension.converter # NoConverter
                 THEN [pushed EXCEPT !.m_op_translators =
                          MapPut(@, extension.op_type, extension.converter)]
                 ELSE IF extension.converter_named_and_indexed # NoConverter
                      THEN [pushed EXCEPT !.m_op_translators =
                               MapPut(@, extension.op_type,
                                      extension.converter_named_and_indexed)]
                      ELSE pushed
      [] extension.kind = "tensorflow::ConversionExtension" ->
             [fe EXCEPT !.m_conversion_extensions = Append(@, extension),
                        !.m_op_translators =
                            MapPut(@, extension.op_type, extension.converter)]
      [] OTHER -> fe

\* the extensions a caller hands to add_extension
Extensions ==
    {TelemetryExtension("sink"), TelemetryExtension("sink2")}
    \cup { DecoderTransformationExtension(p) : p \in TransformationPasses }
    \cup { TensorflowConversionExtension("OpA", "ext_raises"),
           TensorflowConversionExtension("OpB", "ext_ok"),
           TensorflowConversionExtension("OpB", "ext_raises") }

\* extensions of every kind add_extension tells apart, for the calls made on a
\* FrontEnd that is not converting
AllExtensions ==
    LET direct ==
            Extensions
            \cup { TelemetryExtension("sink2"),
                   ConversionExtension("OpB", "ext_indexed", NoConverter),
                   ConversionExtension("OpB", NoConverter, "ext_named_indexed"),
                   ConversionExtension("OpA", "ext_indexed", "ext_named_indexed"),
                   ConversionExtension("OpB", NoConverter, NoConverter),
                   ConversionExtension("OpC", NoConverter, NoConverter),
                   OtherExtension }
        loaded ==
            { SOExtension(inner) :
                inner \in { TelemetryExtension("sink2"),
                            DecoderTransformationExtension("FuseOpB"),
                            TensorflowConversionExtension("OpB", "ext_ok"),
                            ConversionExtension("OpC", "ext_indexed", NoConverter),
                            OtherExtension,
                            SOExtension(TelemetryExtension("sink")) } }
    IN  direct \cup loaded

(***************************************************************************)
(* The state machine of one thread using one FrontEnd.  One conversion     *)
(* call runs at a time; the code it calls back (a translator, a pass, the  *)
(* registration of a pass) may call add_extension, which is a step between *)
(* two steps of the conversion or part of the step that calls back.        *)
(***************************************************************************)
FrontEndMembers ==
    [m_op_translators |-> m_op_translators,
     m_transformation_extensions |-> m_transformation_extensions,
     m_telemetry |-> m_telemetry,
     m_extensions |-> m_extensions,
     m_conversion_extensions |-> m_conversion_extensions]

ConversionVars == <<pc, input_model, translator_map, f, unsupported_operations,
                    failures, exception_message, sent_events, returned,
                    partial_result, pass_log, lookups, entry_translators, raised,
                    normalize_report, steps, ordered_ops_pos, consumers, ports>>

\* FrontEnd::FrontEnd (line 84), no conversion started
Init ==
    /\ m_op_translators = get_supported_ops
    /\ m_transformation_extensions = <<>>
    /\ m_telemetry = NoTelemetry
    /\ m_extensions = <<>>
    /\ m_conversion_extensions = <<>>
    /\ pc = "idle"
    /\ input_model = [kind |-> "none"]
    /\ translator_map = EmptyMap
    /\ f = <<>>
    /\ unsupported_operations = <<>>
    /\ failures = EmptyMap
    /\ exception_message = <<>>
    /\ sent_events = <<>>
    /\ returned = <<>>
    /\ partial_result = <<>>
    /\ pass_log = <<>>
    /\ lookups = {}
    /\ entry_translators = EmptyMap
    /\ raised = NoError
    /\ n_add = 0
    /\ ext_history = <<>>
    /\ normalize_report = EmptyReport
    /\ steps = <<>>
    /\ ordered_ops_pos = 1
    /\ consumers = <<>>
    /\ ports = <<>>

\* add_extension called for each element of a sequence, in order
RECURSIVE add_extensions(_, _)
add_extensions(fe, extensions) ==
    IF extensions = <<>>
    THEN fe
    ELSE add_extensions(add_extension(fe, Head(extensions)), Tail(extensions))

\* the add_extension calls user code makes while the conversion calls it back (a
\* translator, the registration of a pass, the telemetry sink): any number of
\* calls the bound leaves room for, in any order, each with one of the
\* extensions of CallbackExtensions
CallbackExtensions ==
    {TelemetryExtension("sink"), TelemetryExtension("sink2"),
     DecoderTransformationExtension("FuseOpB"),
     TensorflowConversionExtension("OpA", "ext_raises"),
     TensorflowConversionExtension("OpB", "ext_ok")}

Callbacks ==
    UNION { [1..n -> CallbackExtensions] : n \in 0..(MaxAddExtension - n_add) }

\* the members after the calls of `callback`
CallBack(callback) ==
    LET fe == add_extensions(FrontEndMembers, callback)
    IN  /\ m_op_translators' = fe.m_op_translators
        /\ m_transformation_extensions' = fe.m_transformation_extensions
        /\ m_telemetry' = fe.m_telemetry
        /\ m_extensions' = fe.m_extensions
        /\ m_conversion_extensions' = fe.m_conversion_extensions
        /\ ext_history' = ext_history \o callback
        /\ n_add' = n_add + Len(callback)

\* one add_extension call assigns m_op_translators[tag] (line 346, 351 or 361)
RECURSIVE AssignsTranslator(_, _)
AssignsTranslator(extension, tag) ==
    CASE extension.kind = "SOExtension" ->
             AssignsTranslator(extension.extension, tag)
      [] extension.kind = "ConversionExtension" ->
             /\ extension.op_type = tag
             /\ \/ extension.converter # NoConverter
                \/ extension.converter_named_and_indexed # NoConverter
      [] extension.kind = "tensorflow::ConversionExtension" ->
             extension.op_type = tag
      [] OTHER -> FALSE

\* the translator of `tag`, called at line 72 through the std::function
\* m_op_translators holds, makes the calls of `callback`: a call that assigns
\* m_op_translators[tag] destroys that std::function, captures included, while
\* it runs
DestroysTranslator(callback, tag) ==
    \E i \in 1..Len(callback) : AssignsTranslator(callback[i], tag)

\* the sink m_telemetry points to, called at line 220, makes the calls of
\* `callback`: when they leave another sink in m_telemetry, line 338 has dropped
\* the reference of the FrontEnd to the running sink, and the sink is destroyed
\* while it runs if that reference was the last one.  A callback that ends with
\* the running sink registered holds a reference to it
ReleasesTelemetry(callback) ==
    add_extensions(FrontEndMembers, callback).m_telemetry # m_telemetry

\* add_extension (lines 336-364) on a FrontEnd that is not converting, with an
\* extension of any kind
AddExtensionOfAnyKind ==
    /\ pc = "idle"
    /\ n_add < MaxAddExtension
    /\ \E extension \in AllExtensions :
          LET fe == add_extension(FrontEndMembers, extension)
          IN  /\ m_op_translators' = fe.m_op_translators
              /\ m_transformation_extensions' = fe.m_transformation_extensions
              /\ m_telemetry' = fe.m_telemetry
              /\ m_extensions' = fe.m_extensions
              /\ m_conversion_extensions' = fe.m_conversion_extensions
              /\ ext_history' = Append(ext_history, extension)
    /\ n_add' = n_add + 1
    /\ UNCHANGED ConversionVars

\* add_extension (lines 336-364); a finished call is followed by nothing here
AddExtension ==
    /\ pc # "done"
    /\ n_add < MaxAddExtension
    /\ \E extension \in Extensions :
          LET fe == add_extension(FrontEndMembers, extension)
          IN  /\ m_op_translators' = fe.m_op_translators
              /\ m_transformation_extensions' = fe.m_transformation_extensions
              /\ m_telemetry' = fe.m_telemetry
              /\ m_extensions' = fe.m_extensions
              /\ m_conversion_extensions' = fe.m_conversion_extensions
              /\ ext_history' = Append(ext_history, extension)
    /\ n_add' = n_add + 1
    /\ UNCHANGED ConversionVars

\* mutant: the handle is checked only after the branch on the transformation
\* extensions was taken and the decoding step was started
ConvertPartiallyEnter_late_check ==
    /\ pc = "idle"
    /\ \E model \in ModelHandles :
          /\ input_model' = model
          /\ IF model.kind # "tensorflow::InputModel"
             THEN /\ pc' = "done"
                  /\ raised' = InvalidInputModel
                  /\ translator_map' = translator_map
                  /\ steps' = IF Len(m_transformation_extensions) > 0
                              THEN Append(steps, "decode") ELSE steps
             ELSE IF Len(m_transformation_extensions) > 0
                  THEN /\ pc' = "decode"
                       /\ raised' = raised
                       /\ translator_map' = translator_map
                       /\ steps' = steps
                  ELSE /\ pc' = "translate"
                       /\ raised' = raised
                       /\ translator_map' = m_op_translators
                       /\ steps' = steps
    /\ entry_translators' = m_op_translators
    /\ UNCHANGED <<FrontEndState, f, unsupported_operations, failures,
                   exception_message, sent_events, returned, partial_result,
                   pass_log, lookups, normalize_report, WiringVars>>

\* convert_partially, lines 237-241 and 254: the cast, the branch on the
\* transformation extensions, and in the branch without them the clone of the
\* dictionary
ConvertPartiallyEnter ==
    /\ pc = "idle"
    /\ \E model \in ModelHandles :
          /\ input_model' = model
          /\ IF model.kind # "tensorflow::InputModel"
             THEN /\ pc' = "done"
                  /\ raised' = InvalidInputModel
                  /\ translator_map' = translator_map
             ELSE IF Len(m_transformation_extensions) > 0
                  THEN /\ pc' = "decode"
                       /\ raised' = raised
                       /\ translator_map' = translator_map
                  ELSE /\ pc' = "translate"
                       /\ raised' = raised
                       /\ translator_map' = m_op_translators
    /\ entry_translators' = m_op_translators
    /\ UNCHANGED <<FrontEndState, f, unsupported_operations, failures,
                   exception_message, sent_events, returned, partial_result,
                   pass_log, lookups, normalize_report, steps, WiringVars>>

\* convert_partially, lines 256-265: the session over the cloned dictionary
Translate ==
    /\ pc = "translate"
    /\ f' = get_converted_model(input_model.nodes, translator_map)
    /\ lookups' = lookups \cup SessionLookups(input_model.nodes, translator_map)
    /\ pc' = "normalize"
    /\ steps' = Append(steps, "translate")
    /\ UNCHANGED <<FrontEndState, input_model, translator_map, unsupported_operations,
                   failures, exception_message, sent_events, returned,
                   partial_result, pass_log, entry_translators, raised,
                   normalize_report, WiringVars>>

\* decode (lines 271-291), called at line 242
Decode ==
    /\ pc = "decode"
    /\ LET required_types == {"Placeholder", "NoOp"}
           dictionary == [name \in required_types |-> m_op_translators[name]]
       IN  /\ translator_map' = dictionary
           /\ f' = get_converted_model(input_model.nodes, dictionary)
           /\ lookups' = lookups \cup SessionLookups(input_model.nodes, dictionary)
    /\ pc' = "run_passes"
    /\ steps' = Append(steps, "decode")
    /\ UNCHANGED <<FrontEndState, input_model, unsupported_operations, failures,
                   exception_message, sent_events, returned, partial_result,
                   pass_log, entry_translators, raised, normalize_report, WiringVars>>

\* convert_partially, lines 244-248: the passes of the transformation extensions.
\* register_pass (line 246) is user code; when it adds a transformation extension,
\* push_back (line 340) writes the vector the loop of line 245 is iterating, after
\* which the loop either goes on over the elements it started with or the call dies
RunTransformations ==
    /\ pc = "run_passes"
    /\ \E callback \in Callbacks :
          /\ CallBack(callback)
          /\ \E dies \in { d \in BOOLEAN :
                            d => \E i \in 1..Len(callback) :
                                    callback[i].kind = "DecoderTransformationExtension" } :
                IF dies
                THEN /\ pc' = "done"
                     /\ raised' = UndefinedBehaviour
                     /\ UNCHANGED <<f, pass_log, ordered_ops_pos>>
                ELSE LET passes == [i \in 1..Len(m_transformation_extensions) |->
                                       m_transformation_extensions[i].pass]
                     IN  /\ f' = run_passes(passes, f)
                         /\ pass_log' = pass_log \o passes
                         /\ pc' = "retry"
                         /\ raised' = raised
                         /\ ordered_ops_pos' = 1
    /\ steps' = Append(steps, "run_passes")
    /\ UNCHANGED <<input_model, translator_map, unsupported_operations,
                   failures, exception_message, sent_events, returned,
                   partial_result, lookups, entry_translators,
                   normalize_report, consumers, ports>>

\* convert(partiallyConverted), lines 294-298, called at line 249: one round of the
\* loop.  A FrameworkNode is translated with m_op_translators as it is now; its
\* translator is user code and may call add_extension before it returns or raises.
\* When such a call assigns the entry of the tag being translated, the translator
\* goes on in a destroyed std::function: it either ends as it would have or the
\* call dies
ConvertPartiallyConvertedNode ==
    /\ pc = "retry"
    /\ ordered_ops_pos <= Len(f)
    /\ IF f[ordered_ops_pos].type # "FrameworkNode"
       THEN /\ ordered_ops_pos' = ordered_ops_pos + 1
            /\ UNCHANGED <<FrontEndState, f, lookups, raised, pc, steps>>
       ELSE \E new_node_outputs \in 0..MaxPorts, callback \in Callbacks :
               LET r == translate_framework_node(f[ordered_ops_pos], m_op_translators,
                                                 SingleConsumer, 1, new_node_outputs)
               IN  /\ r.invoked = {} => callback = <<>>
                   /\ CallBack(callback)
                   /\ lookups' = lookups \cup r.invoked
                   /\ \E dies \in { d \in BOOLEAN :
                                     d => DestroysTranslator(callback,
                                                             f[ordered_ops_pos].op) } :
                         IF dies
                         THEN /\ pc' = "done"
                              /\ raised' = UndefinedBehaviour
                              /\ steps' = Append(steps, "retry")
                              /\ UNCHANGED <<f, ordered_ops_pos>>
                         ELSE /\ f' = [f EXCEPT ![ordered_ops_pos] = r.node]
                              /\ raised' = r.error
                              /\ IF r.error # NoError
                                 THEN /\ pc' = "done"
                                      /\ steps' = Append(steps, "retry")
                                      /\ ordered_ops_pos' = ordered_ops_pos
                                 ELSE /\ pc' = pc
                                      /\ steps' = steps
                                      /\ ordered_ops_pos' = ordered_ops_pos + 1
    /\ UNCHANGED <<input_model, translator_map, unsupported_operations,
                   failures, exception_message, sent_events, returned,
                   partial_result, pass_log, entry_translators, normalize_report,
                   consumers, ports>>

\* convert(partiallyConverted), lines 298-303: the loop is over, the results are
\* validated and normalize is called
ConvertPartiallyConverted ==
    /\ pc = "retry"
    /\ ordered_ops_pos > Len(f)
    /\ pc' = "normalize"
    /\ steps' = Append(steps, "retry")
    /\ UNCHANGED <<FrontEndState, input_model, translator_map, f,
                   unsupported_operations, failures, exception_message, sent_events,
                   returned, partial_result, pass_log, lookups, entry_translators,
                   raised, normalize_report, WiringVars>>

\* normalize (lines 306-334), called at line 266 or 303; convert_partially
\* then returns f (line 268 or 250)
Normalize ==
    /\ pc = "normalize"
    /\ LET n == normalize(f)
       IN  /\ f' = n.model
           /\ pass_log' = pass_log \o n.applied
           /\ partial_result' = n.model
           /\ normalize_report' = n.report
           /\ consumers' =
                  [k \in DOMAIN consumers |->
                      IF f[k].type = "FrameworkNode" /\ n.model[k].type # "FrameworkNode"
                      THEN replace_node(consumers[k])
                      ELSE consumers[k]]
    /\ pc' = "partial_returned"
    /\ steps' = Append(steps, "normalize")
    /\ UNCHANGED <<FrontEndState, input_model, translator_map, unsupported_operations,
                   failures, exception_message, sent_events, returned, lookups,
                   entry_translators, raised, ordered_ops_pos, ports>>

\* convert, lines 205-218 on the model convert_partially returned at line 203, and
\* lines 224-234 when the loop of line 219 has nothing to send
Convert ==
    /\ pc = "partial_returned"
    /\ LET report == get_unsupported_operations_and_failures(f, EmptyReport)
       IN  /\ unsupported_operations' = report.unsupported_operations
           /\ failures' = report.failures
           /\ \E order \in IterationOrders(DOMAIN report.failures) :
                 exception_message' = build_exception_message(order, report)
           /\ IF m_telemetry # NoTelemetry /\ Len(report.unsupported_operations) > 0
              THEN pc' = "send_event" /\ UNCHANGED <<raised, returned>>
              ELSE /\ pc' = "done"
                   /\ IF is_conversion_successful(report)
                      THEN raised' = NoError /\ returned' = f
                      ELSE raised' = ConversionFailed /\ returned' = returned
    /\ UNCHANGED <<FrontEndState, input_model, translator_map, f, partial_result,
                   sent_events, pass_log, lookups, entry_translators,
                   normalize_report, steps, WiringVars>>

\* convert, lines 219-221: one round of the loop.  The event goes to m_telemetry as
\* it is now; send_event is user code and may call add_extension.  When such calls
\* leave another sink in m_telemetry, the running sink may have been destroyed: it
\* either ends as it would have or the call dies.  After the last round lines
\* 224-234 end the call
SendEvent ==
    /\ pc = "send_event"
    /\ LET i == Len(sent_events) + 1
           report == [unsupported_operations |-> unsupported_operations,
                      failures |-> failures]
       IN  /\ sent_events' = Append(sent_events,
                                    send_event(m_telemetry, unsupported_operations[i]))
           /\ \E callback \in Callbacks :
                 /\ CallBack(callback)
                 /\ \E dies \in { d \in BOOLEAN : d => ReleasesTelemetry(callback) } :
                       IF dies
                       THEN /\ pc' = "done"
                            /\ raised' = UndefinedBehaviour
                            /\ returned' = returned
                       ELSE IF i < Len(unsupported_operations)
                            THEN UNCHANGED <<pc, raised, returned>>
                            ELSE /\ pc' = "done"
                                 /\ IF is_conversion_successful(report)
                                    THEN raised' = NoError /\ returned' = f
                                    ELSE /\ raised' = ConversionFailed
                                         /\ returned' = returned
    /\ UNCHANGED <<input_model, translator_map, f, unsupported_operations, failures,
                   exception_message, partial_result, pass_log, lookups,
                   entry_translators, normalize_report, steps, WiringVars>>

Next ==
    \/ AddExtension
    \/ ConvertPartiallyEnter
    \/ Translate
    \/ Decode
    \/ RunTransformations
    \/ ConvertPartiallyConvertedNode
    \/ ConvertPartiallyConverted
    \/ Normalize
    \/ Convert
    \/ SendEvent

Spec == Init /\ [][Next]_vars

(***************************************************************************)
(* convert from line 205 on, on every graph of the bounded family, with or *)
(* without a telemetry sink registered before the call.                    *)
(***************************************************************************)
InitGraph ==
    /\ m_op_translators = get_supported_ops
    /\ m_transformation_extensions = <<>>
    /\ \E registered \in {<<>>, <<TelemetryExtension("sink")>>} :
          /\ m_telemetry = IF registered = <<>> THEN NoTelemetry
                           ELSE registered[1].sink
          /\ ext_history = registered
          /\ n_add = Len(registered)
    /\ m_extensions = <<>>
    /\ m_conversion_extensions = <<>>
    /\ pc = "partial_returned"
    /\ input_model = [kind |-> "none"]
    /\ translator_map = EmptyMap
    /\ \E shape \in ShapesUpTo(MaxGraphNodes) :
          \E lab \in [1..Size(shape) -> GraphLabels] :
             f = LabelGraph(shape, lab, 0)
    /\ unsupported_operations = <<>>
    /\ failures = EmptyMap
    /\ exception_message = <<>>
    /\ sent_events = <<>>
    /\ returned = <<>>
    /\ partial_result = f
    /\ pass_log = <<>>
    /\ lookups = {}
    /\ entry_translators = EmptyMap
    /\ raised = NoError
    /\ normalize_report = EmptyReport
    /\ steps = <<>>
    /\ ordered_ops_pos = 1
    /\ consumers = <<>>
    /\ ports = <<>>

NextGraph ==
    \/ Convert
    \/ SendEvent

SpecGraph == InitGraph /\ [][NextGraph]_vars

(***************************************************************************)
(* The collector called on a graph again and again, as normalize (line 322) *)
(* and then convert (line 207) call it on the model of one conversion: every*)
(* call gets fresh empty collections and the model as the call before left  *)
(* it.                                                                      *)
(***************************************************************************)
InitCollector ==
    /\ m_op_translators = get_supported_ops
    /\ m_transformation_extensions = <<>>
    /\ m_telemetry = NoTelemetry
    /\ m_extensions = <<>>
    /\ m_conversion_extensions = <<>>
    /\ n_add = 0
    /\ ext_history = <<>>
    /\ pc = "collector"
    /\ input_model = [kind |-> "none"]
    /\ translator_map = EmptyMap
    /\ \E shape \in ShapesUpTo(MaxGraphNodes) :
          \E lab \in [1..Size(shape) -> GraphLabels] :
             f = LabelGraph(shape, lab, 0)
    /\ unsupported_operations = <<>>
    /\ failures = EmptyMap
    /\ exception_message = <<>>
    /\ sent_events = <<>>
    /\ returned = <<>>
    /\ partial_result = f
    /\ pass_log = <<>>
    /\ lookups = {}
    /\ entry_translators = EmptyMap
    /\ raised = NoError
    /\ normalize_report = EmptyReport
    /\ steps = <<>>
    /\ ordered_ops_pos = 1
    /\ consumers = <<>>
    /\ ports = <<>>

\* one call of get_unsupported_operations_and_failures (lines 35-60) with the two
\* collections declared empty just before it (lines 205-206, 320-321); the
\* collections of the first call are kept in normalize_report
RunCollector ==
    /\ pc = "collector"
    /\ Len(steps) < MaxCollectorRuns
    /\ LET run == RunCollectorOn(f, EmptyReport)
       IN  /\ f' = run.model
           /\ unsupported_operations' = run.acc.unsupported_operations
           /\ failures' = run.acc.failures
           /\ normalize_report' = IF steps = <<>> THEN run.acc ELSE normalize_report
    /\ steps' = Append(steps, "collector")
    /\ UNCHANGED <<FrontEndState, pc, input_model, translator_map, exception_message,
                   sent_events, returned, partial_result, pass_log, lookups,
                   entry_translators, raised, WiringVars>>

NextCollector == RunCollector

SpecCollector == InitCollector /\ [][NextCollector]_vars

(***************************************************************************)
(* convert(partiallyConverted) (lines 293-304) called on a model a caller  *)
(* holds: FrameworkNodes and real nodes, every FrameworkNode with its       *)
(* outputs and their consumers.  The FrontEnd has had all but one of the   *)
(* add_extension calls of the run; a translator may make the last one.     *)
(***************************************************************************)
\* the extensions registered before the call
RetryExtensions ==
    { TensorflowConversionExtension("OpB", "ext_ok"),
      TensorflowConversionExtension("BlockLSTM", "ext_ok") }

\* the calls made before the call, those for OpB first: calls for different tags
\* leave the same registry in either order
RetryRegistrations ==
    { registered \in [1..(MaxAddExtension - 1) -> RetryExtensions] :
        \A i \in 1..(Len(registered) - 1) :
            registered[i].op_type = "BlockLSTM" => registered[i + 1].op_type = "BlockLSTM" }

\* the nodes of the model
RetryNodes ==
    { FrameworkNode(t, EmptyMap, <<>>) : t \in {"OpB", "BlockLSTM"} }
    \cup { OpNode("OpA", <<>>) }

\* a FrameworkNode of get_ordered_ops() is reached from a result, so one consumer
\* at least is wired to it; consumer c of all the consumers is wired to the node
\* owner[c], to its output target[c]
Wirings(nodes, old_outputs) ==
    LET n == Len(nodes)
        fw_nodes == { k \in 1..n : nodes[k].type = "FrameworkNode" }
        Owners(total) ==
            { owner \in [1..total -> fw_nodes] :
                /\ \A k \in fw_nodes : \E c \in 1..total : owner[c] = k
                /\ \A c \in 1..(total - 1) : owner[c] <= owner[c + 1] }
        Targets(owner) ==
            { target \in [DOMAIN owner -> 0..(MaxPorts - 1)] :
                \A c \in DOMAIN owner : target[c] < old_outputs[owner[c]] }
        Wiring(owner, target) ==
            [k \in 1..n |->
                LET mine == SelectSeq([c \in DOMAIN owner |-> c],
                                      LAMBDA c : owner[c] = k)
                IN  [c \in 1..Len(mine) |->
                        [source |-> "FrameworkNode", port |-> target[mine[c]]]]]
    IN  UNION { UNION { { Wiring(owner, target) : target \in Targets(owner) }
                        : owner \in Owners(total) }
                : total \in Cardinality(fw_nodes)..MaxConsumers }

InitRetry ==
    /\ \E registered \in RetryRegistrations :
          LET fe == add_extensions([m_op_translators |-> get_supported_ops,
                                    m_transformation_extensions |-> <<>>,
                                    m_telemetry |-> NoTelemetry,
                                    m_extensions |-> <<>>,
                                    m_conversion_extensions |-> <<>>], registered)
          IN  /\ m_op_translators = fe.m_op_translators
              /\ m_transformation_extensions = fe.m_transformation_extensions
              /\ m_telemetry = fe.m_telemetry
              /\ m_extensions = fe.m_extensions
              /\ m_conversion_extensions = fe.m_conversion_extensions
              /\ ext_history = registered
              /\ n_add = Len(registered)
    /\ pc = "retry"
    /\ input_model = [kind |-> "none"]
    /\ translator_map = EmptyMap
    /\ \E n \in 1..MaxRetryNodes :
          \E nodes \in [1..n -> RetryNodes] :
             \E old_outputs \in [1..n -> 1..MaxPorts] :
                /\ f = nodes
                /\ \A k \in 1..n : nodes[k].type # "FrameworkNode" => old_outputs[k] = 1
                /\ ports = [old |-> old_outputs, new |-> 0]
                /\ consumers \in Wirings(nodes, old_outputs)
    /\ unsupported_operations = <<>>
    /\ failures = EmptyMap
    /\ exception_message = <<>>
    /\ sent_events = <<>>
    /\ returned = <<>>
    /\ partial_result = <<>>
    /\ pass_log = <<>>
    /\ lookups = {}
    /\ entry_translators = EmptyMap
    /\ raised = NoError
    /\ normalize_report = EmptyReport
    /\ steps = <<>>
    /\ ordered_ops_pos = 1

\* lines 294-298: one round of the loop.  translate_framework_node (lines 62-81)
\* gets the registry as it is now; the number of outputs the translator produces
\* is the translator's choice, and the translator may call add_extension.  When
\* such a call assigns the entry of the tag being translated, the translator goes
\* on in a destroyed std::function: it either ends as it would have or the call
\* dies
RetryFrameworkNode ==
    /\ pc = "retry"
    /\ ordered_ops_pos <= Len(f)
    /\ IF f[ordered_ops_pos].type # "FrameworkNode"
       THEN /\ ordered_ops_pos' = ordered_ops_pos + 1
            /\ UNCHANGED <<FrontEndState, f, lookups, raised, pc, steps, consumers,
                           ports>>
       ELSE \E new_node_outputs \in 0..MaxPorts, callback \in Callbacks :
               LET k == ordered_ops_pos
                   r == translate_framework_node(f[k], m_op_translators, consumers[k],
                                                 ports.old[k], new_node_outputs)
               IN  /\ r.invoked = {} => callback = <<>>
                   /\ CallBack(callback)
                   /\ lookups' = lookups \cup r.invoked
                   /\ \E dies \in { d \in BOOLEAN :
                                     d => DestroysTranslator(callback, f[k].op) } :
                         IF dies
                         THEN /\ pc' = "done"
                              /\ raised' = UndefinedBehaviour
                              /\ steps' = Append(steps, "retry")
                              /\ UNCHANGED <<f, consumers, ordered_ops_pos, ports>>
                         ELSE /\ f' = [f EXCEPT ![k] = r.node]
                              /\ raised' = r.error
                              /\ consumers' = [consumers EXCEPT ![k] = r.wiring]
                              /\ IF r.error # NoError
                                 THEN /\ pc' = "done"
                                      /\ steps' = Append(steps, "retry")
                                      /\ UNCHANGED <<ordered_ops_pos, ports>>
                                 ELSE /\ pc' = pc
                                      /\ steps' = steps
                                      /\ ordered_ops_pos' = ordered_ops_pos + 1
                                      /\ ports' = [ports EXCEPT
                                                       !.new = new_node_outputs]
    /\ UNCHANGED <<input_model, translator_map, unsupported_operations,
                   failures, exception_message, sent_events, returned,
                   partial_result, pass_log, entry_translators, normalize_report>>

\* convert(partiallyConverted), lines 293-304: the loop, the validation of the
\* results and normalize
NextRetry ==
    \/ RetryFrameworkNode
    \/ ConvertPartiallyConverted
    \/ Normalize

SpecRetry == InitRetry /\ [][NextRetry]_vars

(***************************************************************************)
(* The FrontEnd between conversions: add_extension calls only.             *)
(***************************************************************************)
NextExtensions == AddExtensionOfAnyKind

SpecExtensions == Init /\ [][NextExtensions]_vars

(***************************************************************************)
(* Vocabulary of the properties: the nodes of a model in depth-first order,*)
(* a node first, then its nested models one after the other, then the next *)
(* node.                                                                   *)
(***************************************************************************)
RECURSIVE Preorder(_)
Preorder(model) ==
    Concat([k \in 1..Len(model) |->
               <<model[k]>>
               \o Concat([i \in 1..Len(model[k].functions) |->
                             Preorder(model[k].functions[i])])])

IsFrameworkNode(node) == node.type = "FrameworkNode"
HasFailure(node) == IsFrameworkNode(node) /\ failed_conversion_key \in DOMAIN node.attrs
IsUnsupported(node) == IsFrameworkNode(node) /\ ~HasFailure(node)

CountFrameworkNodes(model) == Len(SelectSeq(Preorder(model), IsFrameworkNode))

Max(S) == CHOOSE x \in S : \A y \in S : y <= x

\* number of levels of nested models below the top-level model
RECURSIVE Depth(_)
Depth(model) ==
    LET nested == UNION { { Depth(model[k].functions[i]) :
                              i \in 1..Len(model[k].functions) } : k \in 1..Len(model) }
    IN  IF nested = {} THEN 0 ELSE 1 + Max(nested)

Range(seq) == { seq[i] : i \in 1..Len(seq) }

\* the tags of a sequence of nodes, each kept at its first occurrence only
RECURSIVE FirstSeen(_)
FirstSeen(tags) ==
    IF tags = <<>>
    THEN <<>>
    ELSE LET front == FirstSeen(SubSeq(tags, 1, Len(tags) - 1))
             last == tags[Len(tags)]
         IN  IF last \in Range(front) THEN front ELSE Append(front, last)

TagsOf(nodes) == [i \in 1..Len(nodes) |-> nodes[i].op]

\* strict convert ran to its end (line 232 raised, or line 234 returned)
ConvertRan == pc = "done" /\ raised \in {NoError, ConversionFailed}

(***************************************************************************)
(* Properties.                                                             *)
(***************************************************************************)

\* C1: convert_partially on a valid input model never raises because a tag has no
\* translator or because a translator raised, with or without transformation
\* extensions registered.
C1_PartialNeverRaises ==
    ~(pc = "done" /\ raised \in {NoTranslatorFound, TranslatorRaised})

\* C2: after the collector ran from empty collections, no tag is both a key of the
\* failure map and an element of the unsupported list.
C2_ReportDisjoint ==
    ConvertRan => DOMAIN failures \cap Range(unsupported_operations) = {}

\* C3: strict convert raises exactly when the collector, run on the model
\* convert_partially returned, reports an unsupported tag or a failure; otherwise
\* it returns that very model.
C3_StrictRaisesIffReported ==
    ConvertRan =>
        LET report == get_unsupported_operations_and_failures(partial_result, EmptyReport)
        IN  /\ (raised = ConversionFailed) <=>
                   (report.unsupported_operations # <<>> \/ DOMAIN report.failures # {})
            /\ (raised = NoError) => (returned = partial_result)

\* C3 witness: convert raised on a model whose only gaps are failures, and (another
\* run) returned a non-empty model
C3_Witness ==
    /\ ConvertRan
    /\ raised = ConversionFailed
    /\ unsupported_operations = <<>>
    /\ DOMAIN failures # {}
    /\ Len(partial_result) > 0

\* C4: a model that strict convert returns holds no FrameworkNode, at the top level
\* or in a nested model at any depth.
C4_ReturnedModelIsReal ==
    (ConvertRan /\ raised = NoError) => CountFrameworkNodes(returned) = 0

\* C4 witness: convert returned a model with models nested two levels deep
C4_Witness ==
    /\ ConvertRan
    /\ raised = NoError
    /\ Depth(returned) >= 2

\* C5: the text of the error strict convert raises has, for every entry of the
\* failure map, its tag with its message, and names as lacking a translator the
\* first element of the unsupported list and no other tag.
C5_MessageContents ==
    (ConvertRan /\ raised = ConversionFailed) =>
        LET named == { exception_message[i].op :
                         i \in { j \in 1..Len(exception_message) :
                                   exception_message[j].kind = "No translator found" } }
        IN  /\ \A t \in DOMAIN failures :
                  \E i \in 1..Len(exception_message) :
                      exception_message[i] =
                          [kind |-> "conversion is failed", op |-> t,
                           message |-> failures[t]]
            /\ named = IF unsupported_operations = <<>>
                       THEN {}
                       ELSE {unsupported_operations[1]}

\* C5 witness: an error over a failure and two unsupported tags
C5_Witness ==
    /\ ConvertRan
    /\ raised = ConversionFailed
    /\ Cardinality(DOMAIN failures) >= 1
    /\ Len(unsupported_operations) = 2

\* C6: normalize runs the first pass list, then the second pass list exactly when
\* the model it then holds has no FrameworkNode anywhere, nested models included;
\* no pass of the second list is applied otherwise.
C6_StageBOnlyOnRealModel ==
    (pc = "partial_returned" \/ ConvertRan) =>
        LET n == Len(pass_log)
            ranB == /\ n >= Len(StageB)
                    /\ SubSeq(pass_log, n - Len(StageB) + 1, n) = StageB
            endA == IF ranB THEN n - Len(StageB) ELSE n
        IN  /\ endA >= Len(StageA)
            /\ SubSeq(pass_log, endA - Len(StageA) + 1, endA) = StageA
            /\ \A i \in 1..(endA - Len(StageA)) : pass_log[i] \in TransformationPasses
            /\ ranB <=> (CountFrameworkNodes(f) = 0)

\* C6 witness: the second list ran on a model whose only FrameworkNode was removed
\* by the first list, and that node sat in a nested model
C6_Witness ==
    /\ pc = "partial_returned"
    /\ SubSeq(pass_log, Len(pass_log) - Len(StageB) + 1, Len(pass_log)) = StageB
    /\ Len(input_model.nodes) = 1
    /\ Len(input_model.nodes[1].nested_subgraphs) = 1
    /\ input_model.nodes[1].nested_subgraphs[1][1].op_type = "BlockLSTM"

\* C7: every translator a conversion invokes is the one that was registered for
\* the tag when convert_partially was entered.
C7_RegistryFixedDuringConversion ==
    \A l \in lookups :
        l[1] \in DOMAIN entry_translators /\ entry_translators[l[1]] = l[2]

\* C8: the tag of every FrameworkNode of the model, however deeply nested, is in
\* the collector's result.
C8_NestedTagsCollected ==
    ConvertRan =>
        LET nodes == SelectSeq(Preorder(f), IsFrameworkNode)
        IN  Range(TagsOf(nodes)) \subseteq Range(unsupported_operations) \cup DOMAIN failures

\* C8 witness: every top-level node is real and a FrameworkNode sits two levels down
C8_Witness ==
    /\ ConvertRan
    /\ \A k \in 1..Len(f) : ~IsFrameworkNode(f[k])
    /\ \E k \in 1..Len(f) : \E i \in 1..Len(f[k].functions) :
          \E k2 \in 1..Len(f[k].functions[i]) :
             \E i2 \in 1..Len(f[k].functions[i][k2].functions) :
                CountFrameworkNodes(f[k].functions[i][k2].functions[i2]) > 0

\* C9: the unsupported list is the tags of the FrameworkNodes without failure
\* message, each once, in the order of their first occurrence in depth-first order.
C9_UnsupportedInFirstSeenOrder ==
    ConvertRan =>
        unsupported_operations = FirstSeen(TagsOf(SelectSeq(Preorder(f), IsUnsupported)))

\* C10: the failure map holds, for each tag, the message of the first FrameworkNode
\* of that tag with a failure message in depth-first order.
C10_FirstFailureWins ==
    ConvertRan =>
        LET failed == SelectSeq(Preorder(f), HasFailure)
        IN  /\ DOMAIN failures = Range(TagsOf(failed))
            /\ \A t \in DOMAIN failures :
                  \E i \in 1..Len(failed) :
                      /\ failed[i].op = t
                      /\ \A j \in 1..(i - 1) : failed[j].op # t
                      /\ failures[t] = failed[i].attrs[failed_conversion_key]

\* C10 witness: two failed nodes of one tag with different messages, the second one
\* in a nested model
C10_Witness ==
    /\ ConvertRan
    /\ Len(f) = 1
    /\ HasFailure(f[1])
    /\ Len(f[1].functions) = 1
    /\ HasFailure(f[1].functions[1][1])
    /\ f[1].functions[1][1].op = f[1].op
    /\ f[1].functions[1][1].attrs # f[1].attrs


\* the second pass list of normalize was the last thing applied to f
StageBRan ==
    /\ Len(pass_log) >= Len(StageA \o StageB)
    /\ SubSeq(pass_log, Len(pass_log) - Len(StageA \o StageB) + 1, Len(pass_log))
           = StageA \o StageB

\* the tag an event of sent_events reports
EventTag(event) == event[3][2]

C12_OneEventPerUnsupportedTag ==
    ConvertRan =>
        LET nodes == SelectSeq(Preorder(f), IsUnsupported)
            unsupported_tags == Range(TagsOf(nodes))
        IN  IF m_telemetry = NoTelemetry
            THEN sent_events = <<>>
            ELSE /\ \A i \in 1..Len(sent_events) :
                       EventTag(sent_events[i]) \in unsupported_tags
                 /\ \A tag \in unsupported_tags :
                       Cardinality({ i \in 1..Len(sent_events) :
                                       EventTag(sent_events[i]) = tag }) = 1

\* C16: a call on a handle that is not a tensorflow InputModel ends at once with the
\* error: no session was run, no pass of an extension or of normalize was applied,
\* no translator was invoked and no telemetry event was sent.
C16_InvalidHandleRaisesAtOnce ==
    raised = InvalidInputModel =>
        /\ pc = "done"
        /\ steps = <<>>
        /\ pass_log = <<>>
        /\ lookups = {}
        /\ sent_events = <<>>
        /\ f = <<>>
        /\ translator_map = EmptyMap

C16_Witness ==
    /\ raised = InvalidInputModel
    /\ input_model.kind = "InputModel"
    /\ Len(m_transformation_extensions) > 0
    /\ m_telemetry # NoTelemetry

\* every FrameworkNode of the model, nested ones included, has a translator in the
\* dictionary that does not raise
AllRetryable(model, op_translators) ==
    \A tag \in Range(TagsOf(SelectSeq(Preorder(model), IsFrameworkNode))) :
        /\ tag \in DOMAIN op_translators
        /\ ~TranslatorRaises(op_translators[tag])

\* C17: when the retry loop of the extension branch has ended without an error and
\* every Placeholder the graph holds, at any depth, has a translator that succeeds,
\* the graph holds no Placeholder at any depth.
C17_RetryReachesNestedPlaceholders ==
    (/\ pc = "normalize"
     /\ steps # <<>>
     /\ steps[Len(steps)] = "retry"
     /\ AllRetryable(f, m_op_translators))
        => CountFrameworkNodes(f) = 0

\* the passes of a list of transformation extensions
PassesOf(extensions) == [i \in 1..Len(extensions) |-> extensions[i].pass]

\* the passes normalize applied are the last ones of pass_log and `before` the rest
NormalizeLastAfter(before) ==
    \/ pass_log = before \o StageA
    \/ pass_log = before \o StageA \o StageB

\* C18: a convert_partially call on a valid model that returned or raised ran one
\* of two step orders: without transformation extensions the session over the clone of the
\* registry, then normalize; with them the decoding session over "Placeholder" and
\* "NoOp" only, the passes of the registered transformation extensions in
\* registration order, the retry, then normalize.  normalize ran once, last.
C18_StepOrders ==
    (/\ pc \in {"partial_returned", "done"}
     /\ input_model.kind = "tensorflow::InputModel"
     /\ raised # UndefinedBehaviour) =>
        /\ \/ /\ steps = <<"translate", "normalize">>
              /\ translator_map = entry_translators
              /\ NormalizeLastAfter(<<>>)
           \/ /\ steps = <<"decode", "run_passes", "retry", "normalize">>
              /\ DOMAIN translator_map = {"Placeholder", "NoOp"}
              /\ \E n \in 1..Len(m_transformation_extensions) :
                    NormalizeLastAfter(
                        PassesOf(SubSeq(m_transformation_extensions, 1, n)))
        /\ m_transformation_extensions = <<>> => steps[1] = "translate"

\* C20: a strict convert that returned normally ran the second pass list of
\* normalize, after the first; one whose normalize skipped it raised.
C20_ReturnImpliesStageB ==
    ConvertRan =>
        /\ raised = NoError => StageBRan
        /\ ~StageBRan => raised = ConversionFailed

C20_Witness ==
    /\ ConvertRan
    /\ raised = NoError
    /\ StageBRan
    /\ Len(returned) > 0
    /\ "retry" \in Range(steps)


Min(a, b) == IF a < b THEN a ELSE b

\* C13: the retry of a Placeholder whose tag has no translator ends the call with
\* the error "No translator found": no translator was invoked, and every consumer
\* of every node is still wired to the output it was wired to.
C13_NoTranslatorNoEffect ==
    [][(/\ pc = "retry"
        /\ ordered_ops_pos <= Len(f)
        /\ f[ordered_ops_pos].type = "FrameworkNode"
        /\ f[ordered_ops_pos].op \notin DOMAIN m_op_translators)
          => /\ pc' = "done"
             /\ raised' = NoTranslatorFound
             /\ lookups' = lookups
             /\ consumers' = consumers
             /\ f' = f]_vars

\* C13 witness: the second node of the model has no translator, after the first
\* was retried with success
C13_Witness ==
    /\ pc = "done"
    /\ raised = NoTranslatorFound
    /\ ordered_ops_pos = 2
    /\ Len(consumers[2]) > 0
    /\ \E c \in DOMAIN consumers[1] : consumers[1][c].source = "new_node"
    /\ n_add > 0

\* C14: a retry whose translator succeeds (it is found, does not raise, and the
\* call does not die because the translator replaced its own registry entry while
\* running) raises nothing whatever the two output
\* counts; right after it the consumers of output i of the Placeholder are wired to
\* produced output i when i is below both counts and are where they were otherwise,
\* so a produced output at or beyond the Placeholder's count has no consumer; the
\* consumers of the other nodes are where they were.
C14_RewiresCommonOutputs ==
    [][(/\ pc = "retry"
        /\ ordered_ops_pos <= Len(f)
        /\ f[ordered_ops_pos].type = "FrameworkNode"
        /\ f[ordered_ops_pos].op \in DOMAIN m_op_translators
        /\ ~TranslatorRaises(m_op_translators[f[ordered_ops_pos].op])
        /\ raised' # UndefinedBehaviour)
          => LET k == ordered_ops_pos
                 before == consumers[k]
                 after == consumers'[k]
             IN  /\ raised' = NoError
                 /\ pc' = "retry"
                 /\ DOMAIN consumers' = DOMAIN consumers
                 /\ \A other \in DOMAIN consumers \ {k} :
                       consumers'[other] = consumers[other]
                 /\ ports'.old = ports.old
                 /\ DOMAIN after = DOMAIN before
                 /\ \A c \in DOMAIN before :
                       LET i == before[c].port
                       IN  IF i < Min(ports.old[k], ports'.new)
                           THEN after[c] = [source |-> "new_node", port |-> i]
                           ELSE after[c] = before[c]
                 /\ \A c \in DOMAIN after :
                       after[c].source = "new_node" => after[c].port < ports.old[k]]_vars

\* C14 witness: the whole call is over, normalize included; the translator of an OpB
\* Placeholder, registered by add_extension, produced fewer outputs than the
\* Placeholder has, one consumer was rewired and one is still wired to the
\* Placeholder
C14_Witness ==
    /\ pc = "partial_returned"
    /\ raised = NoError
    /\ \E k \in DOMAIN f :
          /\ f[k].op = "OpB"
          /\ f[k].type = "FrameworkNode"
          /\ ports.new < ports.old[k]
          /\ \E c \in DOMAIN consumers[k] : consumers[k][c].source = "new_node"
          /\ \E c \in DOMAIN consumers[k] : consumers[k][c].source = "FrameworkNode"


\* the extension a loaded-library wrapper carries, however often it is wrapped
RECURSIVE Unwrap(_)
Unwrap(extension) ==
    IF extension.kind = "SOExtension" THEN Unwrap(extension.extension) ELSE extension

\* the converter of a conversion extension the registry can use, if it has one
UsableConverter(extension) ==
    CASE extension.kind = "tensorflow::ConversionExtension" -> extension.converter
      [] extension.kind = "ConversionExtension" ->
             IF extension.converter # NoConverter
             THEN extension.converter
             ELSE extension.converter_named_and_indexed
      [] OTHER -> NoConverter

\* the add_extension calls that supplied a usable converter for a tag
Registrations(tag) ==
    { i \in 1..Len(ext_history) :
        LET extension == Unwrap(ext_history[i])
        IN  /\ UsableConverter(extension) # NoConverter
            /\ extension.op_type = tag }

\* C15: the registry maps a tag to the converter of the latest add_extension call
\* that supplied a usable one for it, or, when there was none, to its built-in
\* translator; it has no other tag.  As calls are never forgotten, a tag once
\* present stays present.
C15_RegistryLastWriteWins ==
    \A tag \in DOMAIN m_op_translators \cup DOMAIN get_supported_ops
                \cup {"OpA", "OpB", "OpC"} :
        IF Registrations(tag) # {}
        THEN /\ tag \in DOMAIN m_op_translators
             /\ m_op_translators[tag] =
                    UsableConverter(Unwrap(ext_history[Max(Registrations(tag))]))
        ELSE IF tag \in DOMAIN get_supported_ops
             THEN /\ tag \in DOMAIN m_op_translators
                  /\ m_op_translators[tag] = get_supported_ops[tag]
             ELSE tag \notin DOMAIN m_op_translators

C15_Witness ==
    /\ Cardinality(Registrations("OpB")) = 2
    /\ UsableConverter(Unwrap(ext_history[1])) # UsableConverter(Unwrap(ext_history[2]))
    /\ ext_history[2].kind = "ConversionExtension"
    /\ m_op_translators["OpB"] = "ext_named_indexed"

\* what one add_extension call may change, by the kind of its argument
RECURSIVE FrameEffect(_, _, _)
FrameEffect(before, after, extension) ==
    CASE extension.kind = "TelemetryExtension" ->
             after = [before EXCEPT !.m_telemetry = extension.sink]
      [] extension.kind = "DecoderTransformationExtension" ->
             after = [before EXCEPT !.m_transformation_extensions =
                                        Append(@, extension)]
      [] extension.kind = "SOExtension" ->
             /\ after.m_extensions # <<>>
             /\ after.m_extensions[Len(after.m_extensions)] = extension
             /\ FrameEffect(before,
                            [after EXCEPT !.m_extensions =
                                              SubSeq(@, 1, Len(@) - 1)],
                            extension.extension)
      [] extension.kind \in {"ConversionExtension", "tensorflow::ConversionExtension"} ->
             /\ after.m_telemetry = before.m_telemetry
             /\ after.m_transformation_extensions = before.m_transformation_extensions
             /\ after.m_extensions = before.m_extensions
      [] OTHER -> after = before

\* C19: an add_extension call changes the state of the capability of its argument
\* only: a telemetry extension the sink; a transformation extension the end of the
\* list; a loaded-library wrapper what its inner extension changes, and then the
\* list of handles; an extension of no known kind nothing, and the call returns.
C19_AddExtensionFrame ==
    [][n_add' = n_add + 1
          => FrameEffect(FrontEndMembers, FrontEndMembers',
                         ext_history'[Len(ext_history')])]_vars

C19_Witness ==
    /\ Len(ext_history) = 2
    /\ ext_history[1] = DecoderTransformationExtension("InspectOnly")
    /\ ext_history[2] = SOExtension(DecoderTransformationExtension("FuseOpB"))
    /\ Len(m_transformation_extensions) = 2
    /\ Len(m_extensions) = 1

=============================================================================
